---- MODULE Spec2Model ----
(***************************************************************************)
(* RecruitPro-2 backend: the upload / dedupe / scoring / query pipeline of *)
(* routes/candidates.py, routes/job_descriptions.py and routes/matching.py *)
(* over the three Mongo collections candidates, job_descriptions and       *)
(* top_scores and the GridFS bucket.                                       *)
(*                                                                         *)
(* Documents are Python dicts, modelled as TLA+ functions from keys to     *)
(* values, so that the dict spread of parsed_data / score and Mongo's     *)
(* $set are the same override on keys as in the code.  Each handler is a   *)
(* coroutine: one action per stretch of code between two awaits that touch *)
(* the store.  Scores are held in hundredths (86.0 is 8600) so that the    *)
(* weights 0.50/0.30/0.15/0.05 are the integers 50/30/15/5.                *)
(***************************************************************************)
EXTENDS Integers, Sequences, FiniteSets, TLC

\* ------------------------------------------------------------------ bounds
\* MaxFiles: files ever uploaded, those behind the initial database included;
\* MaxReqs: requests in one run; MaxScores: entries in one answer of the
\* scoring engine; MaxScoringCandidates: candidates in the initial database
\* of the concurrent scoring workload.
MaxFiles == 3
MaxReqs == 2
MaxScores == 2
MaxScoringCandidates == 1
MaxIds == 2

\* ------------------------------------------------------- program constants
MinTextLen == 50
W_skills == 50
W_experience == 30
W_education == 15
W_certifications == 5

Users == {"u1", "u2"}
Procs == {"p1", "p2"}
Contents == {"b1", "b2"}
Filenames == {".pdf", ".doc"}
TextLens == {0, MinTextLen - 1, MinTextLen}

None == <<"None">>

\* ----------------------------------------------------------------- dicts
Get(d, k, default) == IF k \in DOMAIN d THEN d[k] ELSE default

Merge(a, b) ==
  [k \in (DOMAIN a) \cup (DOMAIN b) |-> IF k \in DOMAIN b THEN b[k] ELSE a[k]]

Matching(coll, flt) ==
  {d \in coll : \A k \in DOMAIN flt : k \in DOMAIN d /\ d[k] = flt[k]}

\* ------------------------------------------------------ content fingerprint
generate_file_hash(content) == <<"sha256", content>>

\* ----------------------------------------------------------- file types
supported_extensions ==
  {".pdf", ".docx", ".txt", ".jpg", ".jpeg", ".png", ".bmp", ".tiff"}

is_supported_file(filename) == filename \in supported_extensions

\* ------------------------------------------------- resume parser: the email
\* Strings the parser's model may put in "email", as sequences of characters.
RawEmails ==
  { <<>>,
    <<"a", "@", "b", ".", "i", "o">>,
    <<" ", "A", "@", "B", ".", "I", "O", " ">>,
    <<"a", "@", "b">> }

LowerChar(c) ==
  CASE c = "A" -> "a" [] c = "B" -> "b" [] c = "C" -> "c"
    [] c = "I" -> "i" [] c = "O" -> "o" [] OTHER -> c

Lower(s) == [i \in 1..Len(s) |-> LowerChar(s[i])]

RECURSIVE LStrip(_)
LStrip(s) == IF s # <<>> /\ Head(s) = " " THEN LStrip(Tail(s)) ELSE s

RECURSIVE RStrip(_)
RStrip(s) ==
  IF s # <<>> /\ s[Len(s)] = " " THEN RStrip(SubSeq(s, 1, Len(s) - 1)) ELSE s

Strip(s) == RStrip(LStrip(s))

Letters == {"a", "b", "c", "i", "o", "A", "B", "C", "I", "O"}
LocalChars == Letters \cup {".", "_", "%", "+", "-"}
DomainChars == Letters \cup {".", "-"}

\* ^[a-zA-Z0-9._%+-]+@[a-zA-Z0-9.-]+\.[a-zA-Z]{2,}$
EmailRegexMatch(s) ==
  \E i \in 1..Len(s), j \in 1..Len(s) :
    /\ i > 1 /\ s[i] = "@"
    /\ j > i + 1 /\ s[j] = "."
    /\ Len(s) - j >= 2
    /\ \A k \in 1..(i - 1) : s[k] \in LocalChars
    /\ \A k \in (i + 1)..(j - 1) : s[k] \in DomainChars
    /\ \A k \in (j + 1)..Len(s) : s[k] \in Letters

clean_and_validate_data_unnormalised(parsed) ==
  LET raw == Get(parsed, "email", <<>>)
      name == Get(parsed, "name", "")
  IN [name |-> IF name = "" THEN "Unknown" ELSE name,
      email |-> IF raw # <<>> THEN raw ELSE None]

clean_and_validate_data(parsed) ==
  LET raw == Get(parsed, "email", <<>>)
      email == IF raw # <<>>
               THEN (IF EmailRegexMatch(Strip(Lower(raw)))
                     THEN Strip(Lower(raw)) ELSE None)
               ELSE None
      name == Get(parsed, "name", "")
  IN [name |-> IF name = "" THEN "Unknown" ELSE name, email |-> email]

ResumeFallback ==
  [name |-> "Unknown", email |-> None,
   professional_summary |-> "Error parsing resume"]

\* What parse_resume can return: the cleaned model answer, or the fallback.
parse_resume ==
  {clean_and_validate_data([name |-> "Ann", email |-> raw]) : raw \in RawEmails}
    \cup {ResumeFallback}

\* ------------------------------------------------------------------ state
VARIABLES
  candidates,        \* db.candidates: set of documents
  job_descriptions,  \* db.job_descriptions: set of documents
  top_scores,        \* db.top_scores: set of documents
  gridfs,            \* GridFS bucket: ids of the stored files
  nextId,            \* per kind of identifier, the next uuid4() / ObjectId
  started,           \* number of requests accepted so far
  uploaded,          \* number of files uploaded so far
  overlapped,        \* history: has a request started while another was in flight
  req                \* per in-flight coroutine: handler, position and locals

vars ==
  <<candidates, job_descriptions, top_scores, gridfs, nextId, started, uploaded,
    overlapped, req>>

\* Generated identifiers are never reused: the n-th of its kind.  NoId is any
\* identifier that names nothing.
Id(kind, n) == <<kind, n>>
NoId == <<"none", 0>>
IdKinds == {"candidate", "jd", "file", "score"}


Idle ==
  [op |-> "idle", pc |-> "idle", uid |-> "", left |-> 0, filename |-> "",
   text_len |-> -1, file_hash |-> None, parsed_data |-> << >>, file_id |-> NoId, jd_id |-> NoId,
   candidate_ids |-> {}, resumes |-> {}, scores |-> << >>, idx |-> 0, calls |-> << >>,
   min_score |-> 0, limit |-> 0, ids |-> << >>, deleted_count |-> 0, owned |-> {},
   status |-> 0, created |-> << >>, skipped |-> << >>, result |-> << >>]

Fresh(op, pc, uid) == [Idle EXCEPT !.op = op, !.pc = pc, !.uid = uid]

InFlight(p) == req[p].pc \notin {"idle", "done"}

\* The event loop runs one coroutine at a time and switches only at an
\* await: while a request is inside the engine's synchronous call, no other
\* request is accepted or resumed.
Running(p) == \A q \in Procs \ {p} : req[q].pc # "analyze"

\* Request p is resumed at the await pc of handler op.
At(p, op, pc) == req[p].op = op /\ req[p].pc = pc /\ Running(p)

CanStart(p) == ~InFlight(p) /\ started < MaxReqs /\ Running(p)

\* Accepting a request: the handler's coroutine is created with its arguments.
Accept(p, r) ==
  /\ CanStart(p)
  /\ req' = [req EXCEPT ![p] = r]
  /\ started' = started + 1
  /\ uploaded' = uploaded + r.left
  /\ overlapped' = (overlapped \/ \E q \in Procs : InFlight(q))
  /\ UNCHANGED <<candidates, job_descriptions, top_scores, gridfs, nextId>>

\* raise HTTPException(...) leaving the handler: the response and the end of
\* the coroutine.  The locals that made up the response stay readable.
Respond(r, status) ==
  [r EXCEPT !.pc = "done", !.status = status, !.filename = "",
            !.text_len = -1, !.file_hash = None, !.parsed_data = << >>, !.file_id = NoId,
            !.resumes = {}, !.scores = << >>, !.idx = 0]

Fail_unnamed(r) == Respond(r, 500)

\* except Exception as e: raise HTTPException(500, "Error processing
\* {file.filename}: ..."): the batch fails, naming the file it was at.
Fail(r) ==
  [r EXCEPT !.pc = "done", !.status = 500, !.parsed_data = << >>,
            !.file_id = NoId, !.resumes = {}, !.scores = << >>, !.idx = 0]

\* `continue` / end of the loop body: on to the next file of the batch.
NextFile(r) ==
  [r EXCEPT !.pc = "next_file", !.left = r.left - 1, !.filename = "",
            !.text_len = -1, !.file_hash = None, !.parsed_data = << >>, !.file_id = NoId,
            !.jd_id = NoId, !.resumes = {}, !.scores = << >>, !.idx = 0]

Skip_aborting(r, reason) == Fail(r)

Skip(r, reason) ==
  NextFile([r EXCEPT !.skipped = Append(r.skipped, reason)])

\* ------------------------------------------- routes/candidates.py: upload
upload_candidates(p) ==
  \E uid \in Users, n \in 1..(MaxFiles - uploaded) :
    Accept(p, [Fresh("upload_candidates", "next_file", uid) EXCEPT !.left = n])

\* for file in files: the type check, file.read() and the hash; after the
\* last file, `return candidates` (skipped_files is only printed)
upload_candidates_next_file(p) ==
  /\ At(p, "upload_candidates", "next_file")
  /\ IF req[p].left = 0
     THEN req' = [req EXCEPT ![p] =
                    Respond([req[p] EXCEPT !.result = req[p].created], 200)]
     ELSE \E fn \in Filenames, c \in Contents :
            IF ~is_supported_file(fn)
            THEN req' = [req EXCEPT ![p] =
                           Fail([req[p] EXCEPT !.filename = fn,
                                               !.file_hash = generate_file_hash(c)])]
            ELSE req' = [req EXCEPT ![p] =
                           [req[p] EXCEPT !.filename = fn, !.pc = "find_hash",
                                          !.file_hash = generate_file_hash(c)]]
  /\ UNCHANGED <<candidates, job_descriptions, top_scores, gridfs, nextId, started, uploaded, overlapped>>

\* existing_by_hash = await db.candidates.find_one({uid, file_hash}); when
\* absent, extract_text_from_upload, the length check and parse_resume
upload_candidates_find_hash(p) ==
  /\ At(p, "upload_candidates", "find_hash")
  /\ LET r == req[p]
         existing_by_hash ==
           Matching(candidates, [uid |-> r.uid, file_hash |-> r.file_hash])
     IN IF existing_by_hash # {}
        THEN req' = [req EXCEPT ![p] = Skip(r, "duplicate content")]
        ELSE \E len \in TextLens :
               LET r1 == [r EXCEPT !.calls = Append(r.calls, "extract"),
                                   !.text_len = len]
               IN IF len < MinTextLen
                  THEN req' = [req EXCEPT ![p] = Fail(r1)]
                  ELSE \E parsed \in parse_resume :
                         req' = [req EXCEPT ![p] =
                           [r1 EXCEPT
                              !.calls = Append(r1.calls, "parse"),
                              !.parsed_data = parsed,
                              !.pc = IF parsed.email # None
                                     THEN "find_email" ELSE "store_file"]]
  /\ UNCHANGED <<candidates, job_descriptions, top_scores, gridfs, nextId, started, uploaded, overlapped>>

upload_candidates_find_email_unchecked(p) ==
  /\ At(p, "upload_candidates", "find_email")
  /\ req' = [req EXCEPT ![p] = [req[p] EXCEPT !.pc = "store_file"]]
  /\ UNCHANGED <<candidates, job_descriptions, top_scores, gridfs, nextId, started, uploaded, overlapped>>

\* existing_by_email = await db.candidates.find_one({uid, email})
upload_candidates_find_email(p) ==
  /\ At(p, "upload_candidates", "find_email")
  /\ LET r == req[p]
         existing_by_email ==
           Matching(candidates, [uid |-> r.uid, email |-> r.parsed_data.email])
     IN IF existing_by_email # {}
        THEN req' = [req EXCEPT ![p] = Skip(r, "duplicate email")]
        ELSE req' = [req EXCEPT ![p] = [r EXCEPT !.pc = "store_file"]]
  /\ UNCHANGED <<candidates, job_descriptions, top_scores, gridfs, nextId, started, uploaded, overlapped>>

\* file_id = await fs.upload_from_stream(...)
upload_candidates_store_file(p) ==
  /\ At(p, "upload_candidates", "store_file")
  /\ LET file_id == Id("file", nextId["file"])
     IN /\ gridfs' = gridfs \cup {file_id}
        /\ req' = [req EXCEPT ![p] = [req[p] EXCEPT !.pc = "insert", !.file_id = file_id]]
  /\ nextId' = [nextId EXCEPT !["file"] = @ + 1]
  /\ UNCHANGED <<candidates, job_descriptions, top_scores, started, uploaded, overlapped>>

candidate_data(r, id) ==
  Merge([candidate_id |-> id, uid |-> r.uid, file_id |-> r.file_id,
         file_hash |-> r.file_hash],
        r.parsed_data)

upload_candidates_insert_escalating(p) ==
  /\ At(p, "upload_candidates", "insert")
  /\ LET id == Id("candidate", nextId["candidate"])
     IN IF req[p].parsed_data = ResumeFallback
        THEN /\ req' = [req EXCEPT ![p] = Fail(req[p])]
             /\ UNCHANGED <<candidates, nextId>>
        ELSE /\ candidates' = candidates \cup {candidate_data(req[p], id)}
             /\ req' = [req EXCEPT ![p] =
                          NextFile([req[p] EXCEPT !.created = Append(req[p].created, id)])]
             /\ nextId' = [nextId EXCEPT !["candidate"] = @ + 1]
  /\ UNCHANGED <<job_descriptions, top_scores, gridfs, started, uploaded, overlapped>>

\* await db.candidates.insert_one(candidate_data); candidates.append(...)
upload_candidates_insert(p) ==
  /\ At(p, "upload_candidates", "insert")
  /\ LET id == Id("candidate", nextId["candidate"])
     IN /\ candidates' = candidates \cup {candidate_data(req[p], id)}
        /\ req' = [req EXCEPT ![p] =
                     NextFile([req[p] EXCEPT !.created = Append(req[p].created, id)])]
  /\ nextId' = [nextId EXCEPT !["candidate"] = @ + 1]
  /\ UNCHANGED <<job_descriptions, top_scores, gridfs, started, uploaded, overlapped>>

\* ------------------------------------------- routes/candidates.py: delete
\* Ids a caller can name: those issued so far (their records stored or since
\* deleted), and NoId for any id that never named anything.
CandidateIds == {Id("candidate", n) : n \in 1..(nextId["candidate"] - 1)} \cup {NoId}
JobIds == {Id("jd", n) : n \in 1..(nextId["jd"] - 1)} \cup {NoId}

delete_candidate(p) ==
  \E uid \in Users, id \in CandidateIds :
    Accept(p, [Fresh("delete_candidate", "find", uid) EXCEPT !.candidate_ids = {id}])

\* candidate = await db.candidates.find_one({candidate_id, uid})
delete_candidate_find(p) ==
  /\ At(p, "delete_candidate", "find")
  /\ LET r == req[p]
         found == Matching(candidates,
                    [candidate_id |-> CHOOSE id \in r.candidate_ids : TRUE,
                     uid |-> r.uid])
     IN IF found = {}
        THEN req' = [req EXCEPT ![p] = Respond(r, 404)]
        ELSE \E candidate \in found :
               req' = [req EXCEPT ![p] =
                         [r EXCEPT !.pc = "fs_delete", !.file_id = candidate.file_id]]
  /\ UNCHANGED <<candidates, job_descriptions, top_scores, gridfs, nextId, started, uploaded, overlapped>>

\* await fs.delete(file_id), a failure of which is only logged
delete_candidate_fs_delete(p) ==
  /\ At(p, "delete_candidate", "fs_delete")
  /\ gridfs' \in {gridfs \ {req[p].file_id}, gridfs}
  /\ req' = [req EXCEPT ![p] = [req[p] EXCEPT !.pc = "delete_one"]]
  /\ UNCHANGED <<candidates, job_descriptions, top_scores, nextId, started, uploaded, overlapped>>

\* await db.candidates.delete_one({candidate_id})
delete_candidate_delete_one(p) ==
  /\ At(p, "delete_candidate", "delete_one")
  /\ LET hit == {d \in candidates : d.candidate_id \in req[p].candidate_ids}
     IN IF hit = {} THEN candidates' = candidates
        ELSE \E d \in hit : candidates' = candidates \ {d}
  /\ req' = [req EXCEPT ![p] = [req[p] EXCEPT !.pc = "delete_many"]]
  /\ UNCHANGED <<job_descriptions, top_scores, gridfs, nextId, started, uploaded, overlapped>>

\* await db.top_scores.delete_many({candidate_id})
delete_candidate_delete_many(p) ==
  /\ At(p, "delete_candidate", "delete_many")
  /\ top_scores' = {d \in top_scores :
                      ~("candidate_id" \in DOMAIN d
                        /\ d.candidate_id \in req[p].candidate_ids)}
  /\ req' = [req EXCEPT ![p] = Respond(req[p], 200)]
  /\ UNCHANGED <<candidates, job_descriptions, gridfs, nextId, started, uploaded, overlapped>>

\* -------------------------------------- routes/candidates.py: bulk delete
\* The id lists a caller can send.
IdLists == UNION { [1..n -> CandidateIds] : n \in 0..MaxIds }

Range(f) == { f[i] : i \in DOMAIN f }

\* deleted_count = 0, then the loop over candidate_ids.  The field owned is
\* history only, read by no step: the ids of the list that name a candidate
\* of the caller when the request arrives.
bulk_delete_candidates(p) ==
  \E uid \in Users, L \in IdLists :
    Accept(p, [Fresh("bulk_delete_candidates", "find", uid) EXCEPT
                 !.ids = L, !.idx = 1, !.deleted_count = 0,
                 !.owned = { id \in Range(L) :
                               Matching(candidates, [candidate_id |-> id, uid |-> uid]) # {} }])

\* The variant under which the lookup is by candidate_id alone.
bulk_delete_candidates_find_unscoped(p) ==
  /\ At(p, "bulk_delete_candidates", "find")
  /\ req[p].idx <= Len(req[p].ids)
  /\ LET r == req[p]
         candidate_id == r.ids[r.idx]
         found == Matching(candidates, [candidate_id |-> candidate_id])
     IN IF found = {}
        THEN req' = [req EXCEPT ![p] = [r EXCEPT !.idx = @ + 1]]
        ELSE \E candidate \in found :
               req' = [req EXCEPT ![p] =
                         [r EXCEPT !.pc = "fs_delete", !.candidate_ids = {candidate_id},
                                   !.file_id = candidate.file_id]]
  /\ UNCHANGED <<candidates, job_descriptions, top_scores, gridfs, nextId, started, uploaded, overlapped>>

\* candidate = await db.candidates.find_one({candidate_id, uid}); an id that
\* finds nothing is passed over
bulk_delete_candidates_find(p) ==
  /\ At(p, "bulk_delete_candidates", "find")
  /\ req[p].idx <= Len(req[p].ids)
  /\ LET r == req[p]
         candidate_id == r.ids[r.idx]
         found == Matching(candidates, [candidate_id |-> candidate_id, uid |-> r.uid])
     IN IF found = {}
        THEN req' = [req EXCEPT ![p] = [r EXCEPT !.idx = @ + 1]]
        ELSE \E candidate \in found :
               req' = [req EXCEPT ![p] =
                         [r EXCEPT !.pc = "fs_delete", !.candidate_ids = {candidate_id},
                                   !.file_id = candidate.file_id]]
  /\ UNCHANGED <<candidates, job_descriptions, top_scores, gridfs, nextId, started, uploaded, overlapped>>

\* await fs.delete(file_id), a failure of which is only logged
bulk_delete_candidates_fs_delete(p) ==
  /\ At(p, "bulk_delete_candidates", "fs_delete")
  /\ gridfs' \in {gridfs \ {req[p].file_id}, gridfs}
  /\ req' = [req EXCEPT ![p] = [req[p] EXCEPT !.pc = "delete_one"]]
  /\ UNCHANGED <<candidates, job_descriptions, top_scores, nextId, started, uploaded, overlapped>>

\* await db.candidates.delete_one({candidate_id})
bulk_delete_candidates_delete_one(p) ==
  /\ At(p, "bulk_delete_candidates", "delete_one")
  /\ LET hit == {d \in candidates : d.candidate_id \in req[p].candidate_ids}
     IN IF hit = {} THEN candidates' = candidates
        ELSE \E d \in hit : candidates' = candidates \ {d}
  /\ req' = [req EXCEPT ![p] = [req[p] EXCEPT !.pc = "delete_many"]]
  /\ UNCHANGED <<job_descriptions, top_scores, gridfs, nextId, started, uploaded, overlapped>>

\* await db.top_scores.delete_many({candidate_id}); deleted_count += 1; then
\* the next id of the list
bulk_delete_candidates_delete_many(p) ==
  /\ At(p, "bulk_delete_candidates", "delete_many")
  /\ top_scores' = {d \in top_scores :
                      ~("candidate_id" \in DOMAIN d
                        /\ d.candidate_id \in req[p].candidate_ids)}
  /\ req' = [req EXCEPT ![p] =
               [req[p] EXCEPT !.pc = "find", !.idx = @ + 1, !.deleted_count = @ + 1,
                              !.candidate_ids = {}, !.file_id = NoId]]
  /\ UNCHANGED <<candidates, job_descriptions, gridfs, nextId, started, uploaded, overlapped>>

\* return {"deleted_count": deleted_count}
bulk_delete_candidates_return(p) ==
  /\ At(p, "bulk_delete_candidates", "find")
  /\ req[p].idx > Len(req[p].ids)
  /\ req' = [req EXCEPT ![p] =
               Respond([req[p] EXCEPT
                          !.result = <<[deleted_count |-> req[p].deleted_count]>>], 200)]
  /\ UNCHANGED <<candidates, job_descriptions, top_scores, gridfs, nextId, started, uploaded, overlapped>>

\* --------------------------------------- llmservices/parser_llm.py: jobs
RawJobs ==
  { [job_title |-> "Dev", company |-> "Acme", description |-> "d"],
    [job_title |-> "Dev", description |-> "d"] }

JobFallback ==
  [job_title |-> "Untitled Position", company |-> "", description |-> "Error parsing JD"]

parse_job_description ==
  { [job_title |-> Get(parsed, "job_title", "Untitled Position"),
     company |-> Get(parsed, "company", ""),
     description |-> Get(parsed, "description", "")] : parsed \in RawJobs }
    \cup {JobFallback}

\* ------------------------------- llmservices/topscore_gemini.py: the engine
\* One entry of the model's answer about candidate c.  The answer is whatever
\* JSON the language model wrote: a record with the requested category
\* scores (in or out of range), one that also carries a total_score, the
\* requested uid and a jd_id of its own, an error entry, or a record that
\* lacks the candidate id.
ScoreEntry(c, sk, ex, ed, ce) ==
  [candidate_id |-> c, name |-> "Ann", skills_score |-> sk,
   experience_score |-> ex, education_score |-> ed, certifications_score |-> ce]

EngineEntries(cids) ==
  UNION { { ScoreEntry(c, 90, 85, 80, 70),
            ScoreEntry(c, 40, 30, 50, 60),
            ScoreEntry(c, 150, 85, 80, 70),
            Merge(ScoreEntry(c, 90, 85, 80, 70),
                  [total_score |-> 1000, uid |-> "u2", jd_id |-> Id("jd", 1)]),
            [error |-> "e", candidate_id |-> c, name |-> "Ann"] } : c \in cids }
    \cup { [name |-> "Ann", skills_score |-> 90, experience_score |-> 85,
            education_score |-> 80, certifications_score |-> 70] }

SeqsUpTo(S, n) == UNION { [1..k -> S] : k \in 1..n }

\* The return value: a list of entries, the one-entry error sentinel, or
\* (result["candidates"] not being a list) something that is no list.
analyze_multiple_resumes_structured(cids) ==
  { [is_list |-> TRUE, items |-> s] : s \in SeqsUpTo(EngineEntries(cids), MaxScores) }
    \cup { [is_list |-> FALSE, items |-> << >>] }

\* isinstance(score, dict): a JSON string among the entries is [str |-> ..]
IsDict(score) == "str" \notin DOMAIN score

\* for score in scores, with the two `continue`s at the head of the loop
\* body: the position of the first entry from i on that is stored, or
\* Len(scores) + 1 when the loop ends
RECURSIVE SkipEntries(_, _)
SkipEntries(scores, i) ==
  IF i > Len(scores) THEN i
  ELSE IF ~IsDict(scores[i]) \/ "error" \in DOMAIN scores[i]
       THEN SkipEntries(scores, i + 1)
       ELSE i

\* score["candidate_id"] on an entry without that key raises KeyError
RaisesKeyError(score) == "candidate_id" \notin DOMAIN score

\* Compute weighted total score: Skills 50%, Experience 30%, Education 15%,
\* Certs 5% (in hundredths)
total_score(score) ==
  Get(score, "skills_score", 0) * W_skills
    + Get(score, "experience_score", 0) * W_experience
    + Get(score, "education_score", 0) * W_education
    + Get(score, "certifications_score", 0) * W_certifications

score_data_engine_uid(score, jd_id, uid, id) ==
  Merge([score_id |-> id, jd_id |-> jd_id, candidate_id |-> score.candidate_id,
         total_score |-> total_score(score), uid |-> uid],
        score)

\* score_data = {score_id, jd_id, candidate_id, total_score, **score, uid}
score_data(score, jd_id, uid, id) ==
  Merge(Merge([score_id |-> id, jd_id |-> jd_id,
               candidate_id |-> score.candidate_id,
               total_score |-> total_score(score)],
              score),
        [uid |-> uid])

\* ------------------------------------ routes/job_descriptions.py: upload
upload_job_descriptions(p) ==
  \E uid \in Users, n \in 1..(MaxFiles - uploaded) :
    Accept(p, [Fresh("upload_job_descriptions", "next_file", uid) EXCEPT !.left = n])

\* for file in files: file.read() and the hash; after the last file,
\* `return job_descriptions` (skipped_files is only printed)
upload_job_descriptions_next_file(p) ==
  /\ At(p, "upload_job_descriptions", "next_file")
  /\ IF req[p].left = 0
     THEN req' = [req EXCEPT ![p] =
                    Respond([req[p] EXCEPT !.result = req[p].created], 200)]
     ELSE \E fn \in Filenames, c \in Contents :
            req' = [req EXCEPT ![p] =
                      [req[p] EXCEPT !.filename = fn, !.pc = "find_hash",
                                     !.file_hash = generate_file_hash(c)]]
  /\ UNCHANGED <<candidates, job_descriptions, top_scores, gridfs, nextId, started, uploaded, overlapped>>

JdTextSupported(filename) == filename \in {".pdf", ".docx"}

upload_job_descriptions_find_hash_skipping(p) ==
  /\ At(p, "upload_job_descriptions", "find_hash")
  /\ LET r == req[p]
         existing_by_hash ==
           Matching(job_descriptions, [uid |-> r.uid, file_hash |-> r.file_hash])
     IN IF existing_by_hash # {}
        THEN req' = [req EXCEPT ![p] = Skip(r, "duplicate content")]
        ELSE IF ~JdTextSupported(r.filename)
             THEN req' = [req EXCEPT ![p] = Skip(r, "unsupported type")]
             ELSE \E len \in TextLens, parsed \in parse_job_description :
                    req' = [req EXCEPT ![p] =
                      [r EXCEPT
                         !.calls = r.calls \o <<"extract", "parse">>,
                         !.text_len = len,
                         !.parsed_data = parsed,
                         !.pc = IF parsed.job_title # "" /\ parsed.company # ""
                                THEN "find_title" ELSE "store_file"]]
  /\ UNCHANGED <<candidates, job_descriptions, top_scores, gridfs, nextId, started, uploaded, overlapped>>

\* existing_by_hash = await db.job_descriptions.find_one({uid, file_hash});
\* when absent, the text extraction by extension and parse_job_description
\* on whatever text came out, however short
upload_job_descriptions_find_hash(p) ==
  /\ At(p, "upload_job_descriptions", "find_hash")
  /\ LET r == req[p]
         existing_by_hash ==
           Matching(job_descriptions, [uid |-> r.uid, file_hash |-> r.file_hash])
     IN IF existing_by_hash # {}
        THEN req' = [req EXCEPT ![p] = Skip(r, "duplicate content")]
        ELSE IF ~JdTextSupported(r.filename)
             THEN req' = [req EXCEPT ![p] = Fail(r)]
             ELSE \E len \in TextLens, parsed \in parse_job_description :
                    req' = [req EXCEPT ![p] =
                      [r EXCEPT
                         !.calls = r.calls \o <<"extract", "parse">>,
                         !.text_len = len,
                         !.parsed_data = parsed,
                         !.pc = IF parsed.job_title # "" /\ parsed.company # ""
                                THEN "find_title" ELSE "store_file"]]
  /\ UNCHANGED <<candidates, job_descriptions, top_scores, gridfs, nextId, started, uploaded, overlapped>>

upload_job_descriptions_find_title_unchecked(p) ==
  /\ At(p, "upload_job_descriptions", "find_title")
  /\ req' = [req EXCEPT ![p] = [req[p] EXCEPT !.pc = "store_file"]]
  /\ UNCHANGED <<candidates, job_descriptions, top_scores, gridfs, nextId, started, uploaded, overlapped>>

\* existing_by_title = await db.job_descriptions.find_one({uid, job_title, company})
upload_job_descriptions_find_title(p) ==
  /\ At(p, "upload_job_descriptions", "find_title")
  /\ LET r == req[p]
         existing_by_title ==
           Matching(job_descriptions,
                    [uid |-> r.uid, job_title |-> r.parsed_data.job_title,
                     company |-> r.parsed_data.company])
     IN IF existing_by_title # {}
        THEN req' = [req EXCEPT ![p] = Skip(r, "duplicate title+company")]
        ELSE req' = [req EXCEPT ![p] = [r EXCEPT !.pc = "store_file"]]
  /\ UNCHANGED <<candidates, job_descriptions, top_scores, gridfs, nextId, started, uploaded, overlapped>>

\* file_id = await fs.upload_from_stream(...)
upload_job_descriptions_store_file(p) ==
  /\ At(p, "upload_job_descriptions", "store_file")
  /\ LET file_id == Id("file", nextId["file"])
     IN /\ gridfs' = gridfs \cup {file_id}
        /\ req' = [req EXCEPT ![p] = [req[p] EXCEPT !.pc = "insert", !.file_id = file_id]]
  /\ nextId' = [nextId EXCEPT !["file"] = @ + 1]
  /\ UNCHANGED <<candidates, job_descriptions, top_scores, started, uploaded, overlapped>>

jd_data(r, id) ==
  Merge([jd_id |-> id, uid |-> r.uid, file_id |-> r.file_id,
         file_hash |-> r.file_hash],
        r.parsed_data)

\* await db.job_descriptions.insert_one(jd_data); job_descriptions.append(...)
upload_job_descriptions_insert(p) ==
  /\ At(p, "upload_job_descriptions", "insert")
  /\ LET id == Id("jd", nextId["jd"])
     IN /\ job_descriptions' = job_descriptions \cup {jd_data(req[p], id)}
        /\ req' = [req EXCEPT ![p] =
                     [req[p] EXCEPT !.created = Append(req[p].created, id),
                                    !.jd_id = id, !.pc = "find_candidates"]]
  /\ nextId' = [nextId EXCEPT !["jd"] = @ + 1]
  /\ UNCHANGED <<candidates, top_scores, gridfs, started, uploaded, overlapped>>

upload_job_descriptions_find_candidates_raising(p) ==
  /\ At(p, "upload_job_descriptions", "find_candidates")
  /\ LET r == req[p]
         found == Matching(candidates, [uid |-> r.uid])
     IN IF found = {}
        THEN req' = [req EXCEPT ![p] = NextFile(r)]
        ELSE \E out \in analyze_multiple_resumes_structured(
                          {c.candidate_id : c \in found}) :
               LET scores == IF ~out.is_list \/ out.items = << >> THEN << >>
                             ELSE IF "error" \in DOMAIN Head(out.items) THEN << >>
                             ELSE out.items
                   first == SkipEntries(scores, 1)
                   r1 == [r EXCEPT !.calls = Append(r.calls, "engine"),
                                   !.text_len = -1,
                                   !.resumes = {c.candidate_id : c \in found}]
               IN IF scores = << >>
                  THEN req' = [req EXCEPT ![p] = Fail(r1)]
                  ELSE IF first > Len(scores)
                  THEN req' = [req EXCEPT ![p] = NextFile(r1)]
                  ELSE req' = [req EXCEPT ![p] =
                                 [r1 EXCEPT !.scores = scores, !.idx = first,
                                            !.pc = "insert_score"]]
  /\ UNCHANGED <<candidates, job_descriptions, top_scores, gridfs, nextId, started, uploaded, overlapped>>

upload_job_descriptions_find_candidates_always(p) ==
  /\ At(p, "upload_job_descriptions", "find_candidates")
  /\ LET r == req[p]
         found == Matching(candidates, [uid |-> r.uid])
     IN IF found = {}
        THEN req' = [req EXCEPT ![p] =
                       NextFile([r EXCEPT !.calls = Append(r.calls, "engine")])]
        ELSE \E out \in analyze_multiple_resumes_structured(
                          {c.candidate_id : c \in found}) :
               LET scores == IF ~out.is_list \/ out.items = << >> THEN << >>
                             ELSE IF "error" \in DOMAIN Head(out.items) THEN << >>
                             ELSE out.items
                   first == SkipEntries(scores, 1)
                   r1 == [r EXCEPT !.calls = Append(r.calls, "engine"),
                                   !.text_len = -1,
                                   !.resumes = {c.candidate_id : c \in found}]
               IN IF first > Len(scores)
                  THEN req' = [req EXCEPT ![p] = NextFile(r1)]
                  ELSE req' = [req EXCEPT ![p] =
                                 [r1 EXCEPT !.scores = scores, !.idx = first,
                                            !.pc = "insert_score"]]
  /\ UNCHANGED <<candidates, job_descriptions, top_scores, gridfs, nextId, started, uploaded, overlapped>>

\* candidates = [c async for c in db.candidates.find({uid})]; if any, the one
\* engine call, the validity checks (on failure scores = []) and the loop up
\* to its first insert_one
upload_job_descriptions_find_candidates(p) ==
  /\ At(p, "upload_job_descriptions", "find_candidates")
  /\ LET r == req[p]
         found == Matching(candidates, [uid |-> r.uid])
     IN IF found = {}
        THEN req' = [req EXCEPT ![p] = NextFile(r)]
        ELSE \E out \in analyze_multiple_resumes_structured(
                          {c.candidate_id : c \in found}) :
               LET scores == IF ~out.is_list \/ out.items = << >> THEN << >>
                             ELSE IF "error" \in DOMAIN Head(out.items) THEN << >>
                             ELSE out.items
                   first == SkipEntries(scores, 1)
                   r1 == [r EXCEPT !.calls = Append(r.calls, "engine"),
                                   !.text_len = -1,
                                   !.resumes = {c.candidate_id : c \in found}]
               IN IF first > Len(scores)
                  THEN req' = [req EXCEPT ![p] = NextFile(r1)]
                  ELSE req' = [req EXCEPT ![p] =
                                 [r1 EXCEPT !.scores = scores, !.idx = first,
                                            !.pc = "insert_score"]]
  /\ UNCHANGED <<candidates, job_descriptions, top_scores, gridfs, nextId, started, uploaded, overlapped>>

upload_job_descriptions_insert_score_rollback(p) ==
  /\ At(p, "upload_job_descriptions", "insert_score")
  /\ LET r == req[p]
         id == Id("score", nextId["score"])
         doc == Merge([_id |-> id], score_data(r.scores[r.idx], r.jd_id, r.uid, id))
         next == SkipEntries(r.scores, r.idx + 1)
     IN IF RaisesKeyError(r.scores[r.idx])
        THEN /\ req' = [req EXCEPT ![p] = Fail(r)]
             /\ top_scores' = {d \in top_scores : d.jd_id # r.jd_id}
             /\ job_descriptions' = {d \in job_descriptions : d.jd_id # r.jd_id}
             /\ UNCHANGED nextId
        ELSE /\ top_scores' = top_scores \cup {doc}
             /\ req' = [req EXCEPT ![p] =
                          IF next > Len(r.scores) THEN NextFile(r)
                          ELSE [r EXCEPT !.idx = next]]
             /\ nextId' = [nextId EXCEPT !["score"] = @ + 1]
             /\ UNCHANGED job_descriptions
  /\ UNCHANGED <<candidates, gridfs, started, uploaded, overlapped>>

\* await db.top_scores.insert_one(score_data), then on to the next entry; a
\* KeyError while building score_data is caught by the file's except clause
upload_job_descriptions_insert_score(p) ==
  /\ At(p, "upload_job_descriptions", "insert_score")
  /\ LET r == req[p]
         id == Id("score", nextId["score"])
         doc == Merge([_id |-> id], score_data(r.scores[r.idx], r.jd_id, r.uid, id))
         next == SkipEntries(r.scores, r.idx + 1)
     IN IF RaisesKeyError(r.scores[r.idx])
        THEN /\ req' = [req EXCEPT ![p] = Fail(r)]
             /\ UNCHANGED <<top_scores, nextId>>
        ELSE /\ top_scores' = top_scores \cup {doc}
             /\ req' = [req EXCEPT ![p] =
                          IF next > Len(r.scores) THEN NextFile(r)
                          ELSE [r EXCEPT !.idx = next]]
             /\ nextId' = [nextId EXCEPT !["score"] = @ + 1]
  /\ UNCHANGED <<candidates, job_descriptions, gridfs, started, uploaded, overlapped>>

\* ------------------------------------ routes/job_descriptions.py: delete
delete_job_description(p) ==
  \E uid \in Users, id \in JobIds :
    Accept(p, [Fresh("delete_job_description", "find", uid) EXCEPT !.jd_id = id])

\* jd = await db.job_descriptions.find_one({jd_id, uid})
delete_job_description_find(p) ==
  /\ At(p, "delete_job_description", "find")
  /\ LET r == req[p]
         found == Matching(job_descriptions, [jd_id |-> r.jd_id, uid |-> r.uid])
     IN IF found = {}
        THEN req' = [req EXCEPT ![p] = Respond(r, 404)]
        ELSE \E jd \in found :
               req' = [req EXCEPT ![p] =
                         [r EXCEPT !.pc = "fs_delete", !.file_id = jd.file_id]]
  /\ UNCHANGED <<candidates, job_descriptions, top_scores, gridfs, nextId, started, uploaded, overlapped>>

\* await fs.delete(file_id), a failure of which is only logged
delete_job_description_fs_delete(p) ==
  /\ At(p, "delete_job_description", "fs_delete")
  /\ gridfs' \in {gridfs \ {req[p].file_id}, gridfs}
  /\ req' = [req EXCEPT ![p] = [req[p] EXCEPT !.pc = "delete_one"]]
  /\ UNCHANGED <<candidates, job_descriptions, top_scores, nextId, started, uploaded, overlapped>>

\* await db.job_descriptions.delete_one({jd_id})
delete_job_description_delete_one(p) ==
  /\ At(p, "delete_job_description", "delete_one")
  /\ LET hit == Matching(job_descriptions, [jd_id |-> req[p].jd_id])
     IN IF hit = {} THEN job_descriptions' = job_descriptions
        ELSE \E d \in hit : job_descriptions' = job_descriptions \ {d}
  /\ req' = [req EXCEPT ![p] = [req[p] EXCEPT !.pc = "delete_many"]]
  /\ UNCHANGED <<candidates, top_scores, gridfs, nextId, started, uploaded, overlapped>>

delete_job_description_delete_many_nothing(p) ==
  /\ At(p, "delete_job_description", "delete_many")
  /\ req' = [req EXCEPT ![p] = Respond(req[p], 200)]
  /\ UNCHANGED <<candidates, job_descriptions, top_scores, gridfs, nextId, started, uploaded, overlapped>>

\* await db.top_scores.delete_many({jd_id})
delete_job_description_delete_many(p) ==
  /\ At(p, "delete_job_description", "delete_many")
  /\ top_scores' = top_scores \ Matching(top_scores, [jd_id |-> req[p].jd_id])
  /\ req' = [req EXCEPT ![p] = Respond(req[p], 200)]
  /\ UNCHANGED <<candidates, job_descriptions, gridfs, nextId, started, uploaded, overlapped>>

\* ------------------------------------------- routes/matching.py: match
match_candidates(p) ==
  \E uid \in Users, jd_id \in JobIds,
     candidate_ids \in {{}} \cup {{c} : c \in CandidateIds} :
    Accept(p, [Fresh("match_candidates", "find_jd", uid) EXCEPT
                 !.jd_id = jd_id, !.candidate_ids = candidate_ids])

\* jd = await db.job_descriptions.find_one({jd_id, uid})
match_candidates_find_jd(p) ==
  /\ At(p, "match_candidates", "find_jd")
  /\ LET r == req[p]
         jd == Matching(job_descriptions, [jd_id |-> r.jd_id, uid |-> r.uid])
     IN IF jd = {}
        THEN req' = [req EXCEPT ![p] = Respond(r, 404)]
        ELSE req' = [req EXCEPT ![p] = [r EXCEPT !.pc = "find_candidates"]]
  /\ UNCHANGED <<candidates, job_descriptions, top_scores, gridfs, nextId, started, uploaded, overlapped>>

\* the candidates query ({uid}, narrowed by candidate_ids when given) and
\* the resumes built from what it found
match_candidates_find_candidates(p) ==
  /\ At(p, "match_candidates", "find_candidates")
  /\ LET r == req[p]
         found == {c \in Matching(candidates, [uid |-> r.uid]) :
                     r.candidate_ids # {} => c.candidate_id \in r.candidate_ids}
     IN IF found = {}
        THEN req' = [req EXCEPT ![p] = Respond(r, 404)]
        ELSE req' = [req EXCEPT ![p] =
                       [r EXCEPT !.pc = "analyze",
                                 !.resumes = {c.candidate_id : c \in found}]]
  /\ UNCHANGED <<candidates, job_descriptions, top_scores, gridfs, nextId, started, uploaded, overlapped>>

match_candidates_analyze_tolerant(p) ==
  /\ At(p, "match_candidates", "analyze")
  /\ LET r == req[p]
     IN \E out \in analyze_multiple_resumes_structured(r.resumes) :
          LET r1 == [r EXCEPT !.calls = Append(r.calls, "engine")]
              r2 == [r1 EXCEPT !.result = out.items]
              first == SkipEntries(out.items, 1)
          IN IF ~out.is_list \/ out.items = << >>
             THEN req' = [req EXCEPT ![p] = Respond(r1, 500)]
             ELSE IF "error" \in DOMAIN Head(out.items)
             THEN req' = [req EXCEPT ![p] = Respond(r1, 200)]
             ELSE IF first > Len(out.items)
             THEN req' = [req EXCEPT ![p] = Respond(r2, 200)]
             ELSE req' = [req EXCEPT ![p] =
                            [r2 EXCEPT !.scores = out.items, !.idx = first,
                                       !.pc = "update_one"]]
  /\ UNCHANGED <<candidates, job_descriptions, top_scores, gridfs, nextId, started, uploaded, overlapped>>

\* scores = analyze_multiple_resumes_structured(jd_text, resumes): a plain
\* (not awaited) call of a function that waits for the model's HTTP answer;
\* the request is inside it from the previous step to this one, which is
\* its return, the three validity checks and the loop up to its first
\* update_one; the response carries the engine's list ("scores": scores)
match_candidates_analyze(p) ==
  /\ At(p, "match_candidates", "analyze")
  /\ LET r == req[p]
     IN \E out \in analyze_multiple_resumes_structured(r.resumes) :
          LET r1 == [r EXCEPT !.calls = Append(r.calls, "engine")]
              r2 == [r1 EXCEPT !.result = out.items]
              first == SkipEntries(out.items, 1)
          IN IF ~out.is_list \/ out.items = << >>
             THEN req' = [req EXCEPT ![p] = Respond(r1, 500)]
             ELSE IF "error" \in DOMAIN Head(out.items)
             THEN req' = [req EXCEPT ![p] = Respond(r1, 500)]
             ELSE IF first > Len(out.items)
             THEN req' = [req EXCEPT ![p] = Respond(r2, 200)]
             ELSE req' = [req EXCEPT ![p] =
                            [r2 EXCEPT !.scores = out.items, !.idx = first,
                                       !.pc = "update_one"]]
  /\ UNCHANGED <<candidates, job_descriptions, top_scores, gridfs, nextId, started, uploaded, overlapped>>

\* db.top_scores.update_one(flt, {"$set": data}, upsert=True) on a collection
upsert(coll, flt, data, oid) ==
  LET hit == Matching(coll, flt)
  IN IF hit = {}
     THEN { coll \cup {Merge(Merge([_id |-> oid], flt), data)} }
     ELSE { (coll \ {d}) \cup {Merge(d, data)} : d \in hit }

\* await db.top_scores.update_one({jd_id, candidate_id}, {"$set": score_data},
\* upsert=True), then on to the next entry; a KeyError while building
\* score_data is handled by nobody and the server answers 500
match_candidates_update_one(p) ==
  /\ At(p, "match_candidates", "update_one")
  /\ LET r == req[p]
         id == Id("score", nextId["score"])
         score == r.scores[r.idx]
         next == SkipEntries(r.scores, r.idx + 1)
     IN IF RaisesKeyError(score)
        THEN /\ req' = [req EXCEPT ![p] = Respond(r, 500)]
             /\ UNCHANGED <<top_scores, nextId>>
        ELSE /\ top_scores' \in
                  upsert(top_scores,
                         [jd_id |-> r.jd_id, candidate_id |-> score.candidate_id],
                         score_data(score, r.jd_id, r.uid, id), id)
             /\ req' = [req EXCEPT ![p] =
                          IF next > Len(r.scores) THEN Respond(r, 200)
                          ELSE [r EXCEPT !.idx = next]]
             /\ nextId' = [nextId EXCEPT !["score"] = @ + 1]
  /\ UNCHANGED <<candidates, job_descriptions, gridfs, started, uploaded, overlapped>>

\* ------------------------------------- routes/matching.py: top matches
MinScores == {0, 5000, 8600}

get_top_matches(p) ==
  \E uid \in Users, jd_id \in JobIds, min_score \in MinScores,
     limit \in 0..MaxScores :
    Accept(p, [Fresh("get_top_matches", "find_jd", uid) EXCEPT
                 !.jd_id = jd_id, !.min_score = min_score, !.limit = limit])

get_top_matches_find_jd_any_owner(p) ==
  /\ At(p, "get_top_matches", "find_jd")
  /\ LET r == req[p]
         jd == Matching(job_descriptions, [jd_id |-> r.jd_id])
     IN IF jd = {}
        THEN req' = [req EXCEPT ![p] = Respond(r, 404)]
        ELSE req' = [req EXCEPT ![p] = [r EXCEPT !.pc = "find"]]
  /\ UNCHANGED <<candidates, job_descriptions, top_scores, gridfs, nextId, started, uploaded, overlapped>>

\* jd = await db.job_descriptions.find_one({jd_id, uid})
get_top_matches_find_jd(p) ==
  /\ At(p, "get_top_matches", "find_jd")
  /\ LET r == req[p]
         jd == Matching(job_descriptions, [jd_id |-> r.jd_id, uid |-> r.uid])
     IN IF jd = {}
        THEN req' = [req EXCEPT ![p] = Respond(r, 404)]
        ELSE req' = [req EXCEPT ![p] = [r EXCEPT !.pc = "find"]]
  /\ UNCHANGED <<candidates, job_descriptions, top_scores, gridfs, nextId, started, uploaded, overlapped>>

\* query = {jd_id, uid, total_score: {$gte: min_score}}
top_query(coll, jd_id, uid, min_score) ==
  {d \in Matching(coll, [jd_id |-> jd_id, uid |-> uid]) :
     "total_score" \in DOMAIN d /\ d.total_score >= min_score}

\* cursor.limit(n): the number of documents a cursor over count matches
\* yields; a limit of 0 is no limit
cursor_limit(limit, count) ==
  IF limit = 0 \/ limit > count THEN count ELSE limit

sort_unordered(docs) ==
  {s \in [1..Cardinality(docs) -> docs] :
     \A i, j \in DOMAIN s : i # j => s[i] # s[j]}

\* .sort("total_score", -1): the orders a descending sort may produce
\* (documents of equal total_score come in any order)
sort_descending(docs) ==
  {s \in [1..Cardinality(docs) -> docs] :
     /\ \A i, j \in DOMAIN s : i # j => s[i] # s[j]
     /\ \A i, j \in DOMAIN s : i < j => s[i].total_score >= s[j].total_score}

\* CandidateScore(**doc): the response model's validation
CandidateScoreValid(doc) ==
  /\ {"uid", "candidate_id", "jd_id", "name"} \subseteq DOMAIN doc
  /\ \A k \in {"skills_score", "experience_score", "education_score",
               "certifications_score"} :
       k \in DOMAIN doc /\ doc[k] >= 0 /\ doc[k] <= 100

\* cursor = db.top_scores.find(query).sort("total_score", -1).limit(limit)
get_top_matches_find(p) ==
  /\ At(p, "get_top_matches", "find")
  /\ LET r == req[p]
         docs == top_query(top_scores, r.jd_id, r.uid, r.min_score)
     IN \E sorted \in sort_descending(docs) :
          LET scores == SubSeq(sorted, 1, cursor_limit(r.limit, Len(sorted)))
          IN IF \A i \in DOMAIN scores : CandidateScoreValid(scores[i])
             THEN req' = [req EXCEPT ![p] =
                            Respond([r EXCEPT !.result = scores], 200)]
             ELSE req' = [req EXCEPT ![p] = Respond(r, 500)]
  /\ UNCHANGED <<candidates, job_descriptions, top_scores, gridfs, nextId, started, uploaded, overlapped>>

\* ------------------------------------------------- the download endpoints
download_candidate_resume(p) ==
  \E uid \in Users, id \in CandidateIds :
    Accept(p, [Fresh("download_candidate_resume", "find", uid) EXCEPT
                 !.candidate_ids = {id}])

\* candidate = await db.candidates.find_one({candidate_id})
download_candidate_resume_find(p) ==
  /\ At(p, "download_candidate_resume", "find")
  /\ LET r == req[p]
         found == Matching(candidates,
                    [candidate_id |-> CHOOSE id \in r.candidate_ids : TRUE])
     IN IF found = {}
        THEN req' = [req EXCEPT ![p] = Respond(r, 404)]
        ELSE \E candidate \in found :
               req' = [req EXCEPT ![p] =
                         [r EXCEPT !.pc = "open", !.file_id = candidate.file_id]]
  /\ UNCHANGED <<candidates, job_descriptions, top_scores, gridfs, nextId, started, uploaded, overlapped>>

\* grid_out = await fs.open_download_stream(file_id) and the read: the file's
\* bytes are the response; a missing blob raises, which the except clause
\* answers with 500
download_candidate_resume_open(p) ==
  /\ At(p, "download_candidate_resume", "open")
  /\ LET r == req[p]
     IN IF r.file_id \in gridfs
        THEN req' = [req EXCEPT ![p] =
                       Respond([r EXCEPT !.result = <<[file_id |-> r.file_id]>>], 200)]
        ELSE req' = [req EXCEPT ![p] = Respond(r, 500)]
  /\ UNCHANGED <<candidates, job_descriptions, top_scores, gridfs, nextId, started, uploaded, overlapped>>

download_job_description(p) ==
  \E uid \in Users, jd_id \in JobIds :
    Accept(p, [Fresh("download_job_description", "find", uid) EXCEPT !.jd_id = jd_id])

\* jd = await db.job_descriptions.find_one({jd_id})
download_job_description_find(p) ==
  /\ At(p, "download_job_description", "find")
  /\ LET r == req[p]
         found == Matching(job_descriptions, [jd_id |-> r.jd_id])
     IN IF found = {}
        THEN req' = [req EXCEPT ![p] = Respond(r, 404)]
        ELSE \E jd \in found :
               req' = [req EXCEPT ![p] =
                         [r EXCEPT !.pc = "open", !.file_id = jd.file_id]]
  /\ UNCHANGED <<candidates, job_descriptions, top_scores, gridfs, nextId, started, uploaded, overlapped>>

\* grid_out = await fs.open_download_stream(file_id) and the read
download_job_description_open(p) ==
  /\ At(p, "download_job_description", "open")
  /\ LET r == req[p]
     IN IF r.file_id \in gridfs
        THEN req' = [req EXCEPT ![p] =
                       Respond([r EXCEPT !.result = <<[file_id |-> r.file_id]>>], 200)]
        ELSE req' = [req EXCEPT ![p] = Respond(r, 500)]
  /\ UNCHANGED <<candidates, job_descriptions, top_scores, gridfs, nextId, started, uploaded, overlapped>>

\* ------------------------------------------------------------ initial states
\* The server starts on an existing database.  The databases below are ones
\* earlier uploads leave behind: empty; user u1 with two candidates; u1 with
\* one candidate and one job whose fan-out stored no score (the engine's
\* answer was an error).
SeedCandidate(n, uid, content, parsed) ==
  candidate_data([uid |-> uid, file_id |-> Id("file", n),
                  file_hash |-> generate_file_hash(content),
                  parsed_data |-> parsed],
                 Id("candidate", n))

SeedJd(n, fileno, uid, content, parsed) ==
  jd_data([uid |-> uid, file_id |-> Id("file", fileno),
           file_hash |-> generate_file_hash(content), parsed_data |-> parsed],
          Id("jd", n))

Ann == clean_and_validate_data([name |-> "Ann", email |-> <<"a", "@", "b", ".", "i", "o">>])
Bob == clean_and_validate_data([name |-> "Bob"])
DevAtAcme == [job_title |-> "Dev", company |-> "Acme", description |-> "d"]

Seeds ==
  { [c |-> {}, j |-> {}],
    [c |-> {SeedCandidate(1, "u1", "b1", Ann), SeedCandidate(2, "u1", "b2", Bob)},
     j |-> {}],
    [c |-> {SeedCandidate(1, "u1", "b1", Ann)},
     j |-> {SeedJd(1, 2, "u1", "b1", DevAtAcme)}] }

\* A store left by a candidate upload alone.
SeedsRetry == { [c |-> {SeedCandidate(1, "u1", "b1", Ann)}, j |-> {}] }

InitWith(seeds) ==
  /\ \E seed \in seeds :
       /\ candidates = seed.c
       /\ job_descriptions = seed.j
       /\ gridfs = {d.file_id : d \in seed.c \cup seed.j}
       /\ uploaded = Cardinality(seed.c \cup seed.j)
       /\ nextId = [k \in IdKinds |->
                      CASE k = "candidate" -> Cardinality(seed.c) + 1
                        [] k = "jd" -> Cardinality(seed.j) + 1
                        [] k = "file" -> Cardinality(seed.c \cup seed.j) + 1
                        [] OTHER -> 1]
  /\ top_scores = {}
  /\ started = 0
  /\ overlapped = FALSE
  /\ req = [p \in Procs |-> Idle]

Init == InitWith(Seeds)

\* ---------------------------------------------------------- specifications
Start(p) ==
  \/ upload_candidates(p)
  \/ upload_job_descriptions(p)
  \/ match_candidates(p)
  \/ get_top_matches(p)
  \/ delete_candidate(p)
  \/ delete_job_description(p)

Step(p) ==
  \/ upload_candidates_next_file(p)
  \/ upload_candidates_find_hash(p)
  \/ upload_candidates_find_email(p)
  \/ upload_candidates_store_file(p)
  \/ upload_candidates_insert(p)
  \/ upload_job_descriptions_next_file(p)
  \/ upload_job_descriptions_find_hash(p)
  \/ upload_job_descriptions_find_title(p)
  \/ upload_job_descriptions_store_file(p)
  \/ upload_job_descriptions_insert(p)
  \/ upload_job_descriptions_find_candidates(p)
  \/ upload_job_descriptions_insert_score(p)
  \/ match_candidates_find_jd(p)
  \/ match_candidates_find_candidates(p)
  \/ match_candidates_analyze(p)
  \/ match_candidates_update_one(p)
  \/ get_top_matches_find_jd(p)
  \/ get_top_matches_find(p)
  \/ delete_candidate_find(p)
  \/ delete_candidate_fs_delete(p)
  \/ delete_candidate_delete_one(p)
  \/ delete_candidate_delete_many(p)
  \/ delete_job_description_find(p)
  \/ delete_job_description_fs_delete(p)
  \/ delete_job_description_delete_one(p)
  \/ delete_job_description_delete_many(p)

StartReads(p) ==
  \/ download_candidate_resume(p)
  \/ download_job_description(p)

StepReads(p) ==
  \/ download_candidate_resume_find(p)
  \/ download_candidate_resume_open(p)
  \/ download_job_description_find(p)
  \/ download_job_description_open(p)

StepBulk(p) ==
  \/ bulk_delete_candidates_find(p)
  \/ bulk_delete_candidates_fs_delete(p)
  \/ bulk_delete_candidates_delete_one(p)
  \/ bulk_delete_candidates_delete_many(p)
  \/ bulk_delete_candidates_return(p)

\* The server: requests in flight together, interleaved at their awaits.
Next ==
  \E p \in Procs :
    \/ Start(p) \/ Step(p)
    \/ StartReads(p) \/ StepReads(p)
    \/ bulk_delete_candidates(p) \/ StepBulk(p)

Spec == Init /\ [][Next]_vars

\* Non-overlapping requests: each one runs to its response before the next.
NextSeq == Start("p1") \/ Step("p1")

SpecSeq == Init /\ [][NextSeq]_vars

\* The candidate endpoints alone, requests in flight together.
StepCandidates(p) ==
  \/ upload_candidates_next_file(p)
  \/ upload_candidates_find_hash(p)
  \/ upload_candidates_find_email(p)
  \/ upload_candidates_store_file(p)
  \/ upload_candidates_insert(p)
  \/ delete_candidate_find(p)
  \/ delete_candidate_fs_delete(p)
  \/ delete_candidate_delete_one(p)
  \/ delete_candidate_delete_many(p)

NextCandidates ==
  \E p \in Procs : upload_candidates(p) \/ delete_candidate(p) \/ StepCandidates(p)

SpecCandidates == Init /\ [][NextCandidates]_vars

\* The two writers of top_scores alone (job upload with its fan-out, and
\* match), requests in flight together.
StepScoring(p) ==
  \/ upload_job_descriptions_next_file(p)
  \/ upload_job_descriptions_find_hash(p)
  \/ upload_job_descriptions_find_title(p)
  \/ upload_job_descriptions_store_file(p)
  \/ upload_job_descriptions_insert(p)
  \/ upload_job_descriptions_find_candidates(p)
  \/ upload_job_descriptions_insert_score(p)
  \/ match_candidates_find_jd(p)
  \/ match_candidates_find_candidates(p)
  \/ match_candidates_analyze(p)
  \/ match_candidates_update_one(p)

NextScoring ==
  \E p \in Procs : upload_job_descriptions(p) \/ match_candidates(p) \/ StepScoring(p)

InitScoring == Init /\ Cardinality(candidates) <= MaxScoringCandidates

SpecScoring == InitScoring /\ [][NextScoring]_vars

\* The two delete endpoints and match, requests in flight together, from a
\* store that holds a job.
StepIntegrity(p) ==
  \/ match_candidates_find_jd(p)
  \/ match_candidates_find_candidates(p)
  \/ match_candidates_analyze(p)
  \/ match_candidates_update_one(p)
  \/ delete_candidate_find(p)
  \/ delete_candidate_fs_delete(p)
  \/ delete_candidate_delete_one(p)
  \/ delete_candidate_delete_many(p)
  \/ delete_job_description_find(p)
  \/ delete_job_description_fs_delete(p)
  \/ delete_job_description_delete_one(p)
  \/ delete_job_description_delete_many(p)

NextIntegrity ==
  \E p \in Procs :
    \/ match_candidates(p)
    \/ delete_candidate(p)
    \/ delete_job_description(p)
    \/ StepIntegrity(p)

InitIntegrity == Init /\ job_descriptions # {}

SpecIntegrity == InitIntegrity /\ [][NextIntegrity]_vars

\* The download endpoints and the candidate upload, one request at a time.
NextReads ==
  \/ StartReads("p1") \/ StepReads("p1")
  \/ upload_candidates("p1")
  \/ upload_candidates_next_file("p1")
  \/ upload_candidates_find_hash("p1")
  \/ upload_candidates_find_email("p1")
  \/ upload_candidates_store_file("p1")
  \/ upload_candidates_insert("p1")

SpecReads == Init /\ [][NextReads]_vars

\* Job uploads, one request at a time, on a store that holds one candidate
\* and no job.
StepRetry(p) ==
  \/ upload_job_descriptions_next_file(p)
  \/ upload_job_descriptions_find_hash(p)
  \/ upload_job_descriptions_find_title(p)
  \/ upload_job_descriptions_store_file(p)
  \/ upload_job_descriptions_insert(p)
  \/ upload_job_descriptions_find_candidates(p)
  \/ upload_job_descriptions_insert_score(p)

NextRetry == upload_job_descriptions("p1") \/ StepRetry("p1")

SpecRetry == InitWith(SeedsRetry) /\ [][NextRetry]_vars

\* Bulk delete and match, one request at a time.
NextBulk ==
  \/ bulk_delete_candidates("p1")
  \/ StepBulk("p1")
  \/ match_candidates("p1")
  \/ match_candidates_find_jd("p1")
  \/ match_candidates_find_candidates("p1")
  \/ match_candidates_analyze("p1")
  \/ match_candidates_update_one("p1")

SpecBulk == Init /\ [][NextBulk]_vars

\* ------------------------------------------------------------------ claims

\* C1: every score record stored by match or by the job-upload fan-out from
\* an engine record whose four category scores are numbers in [0,100] has
\* total_score = 0.50 skills + 0.30 experience + 0.15 education + 0.05
\* certifications (in hundredths: weights 50/30/15/5), so that 90/85/80/70
\* is stored as 86.0 and 40/30/50/60 as 39.5.
C1_StoredCompositeIsWeightedSum ==
  [][\A d \in top_scores' \ top_scores :
       (\A k \in {"skills_score", "experience_score", "education_score",
                  "certifications_score"} : k \in DOMAIN d /\ d[k] \in 0..100)
         => d.total_score = 50 * d.skills_score + 30 * d.experience_score
                              + 15 * d.education_score
                              + 5 * d.certifications_score]_vars

\* C2: the stored composite is recomputed and never taken from the scoring
\* engine: in every reachable state every stored score's total_score is the
\* weighted sum of its own four stored category scores, also when the
\* engine's record carried a total_score of its own.
C2_CompositeNeverTrusted ==
  \A d \in top_scores :
    d.total_score = d.skills_score * 50 + d.experience_score * 30
                      + d.education_score * 15 + d.certifications_score * 5

\* C3: once a match request for job J has answered (requests not
\* overlapping), each (J, candidate) pair it scored has exactly one stored
\* record, and that record carries the category scores of this run; also
\* when the pair's earlier record came from the job-upload fan-out.
C3_RematchLeavesOneRecord ==
  \A p \in Procs :
    LET r == req[p]
        valid == {i \in DOMAIN r.result :
                    IsDict(r.result[i]) /\ "error" \notin DOMAIN r.result[i]}
    IN (r.op = "match_candidates" /\ r.pc = "done" /\ r.status = 200) =>
         \A i \in valid :
           LET recs == {d \in top_scores :
                          /\ d.jd_id = r.jd_id
                          /\ d.candidate_id = r.result[i].candidate_id}
           IN /\ Cardinality(recs) = 1
              /\ \A d \in recs : \E j \in valid :
                   /\ r.result[j].candidate_id = d.candidate_id
                   /\ \A k \in {"skills_score", "experience_score",
                                "education_score", "certifications_score"} :
                        d[k] = r.result[j][k]

\* C4: under any interleaving of concurrent requests (a match request for a
\* job whose upload fan-out is still storing, or two match requests), at
\* most one stored score exists per (job, candidate) pair: whenever a
\* request stores the score of a candidate, the first entry for that
\* candidate in its engine answer, the pair has one record afterwards.
C4_OneScorePerPair ==
  [][\A p \in Procs :
       LET r == req[p]
           c == r.scores[r.idx].candidate_id
       IN (/\ r.pc \in {"insert_score", "update_one"} /\ req'[p] # r
           /\ "candidate_id" \in DOMAIN r.scores[r.idx]
           /\ \A j \in 1..(r.idx - 1) :
                "candidate_id" \in DOMAIN r.scores[j] =>
                  r.scores[j].candidate_id # c)
            => Cardinality({d \in top_scores' :
                              d.jd_id = r.jd_id /\ d.candidate_id = c}) <= 1]_vars

\* C5 as stated: an uploaded file whose bytes a record of the same user
\* already holds is skipped as duplicate content whatever its filename, and
\* the rest of the batch is processed: no upload fails at such a file.
C5_AnyFilenameSkipped ==
  \A p \in Procs :
    LET r == req[p]
        coll == IF r.op = "upload_candidates" THEN candidates ELSE job_descriptions
    IN (/\ r.op \in {"upload_candidates", "upload_job_descriptions"}
        /\ r.pc = "done" /\ r.status = 500 /\ r.file_hash # None)
         => ~ \E d \in coll : d.uid = r.uid /\ d.file_hash = r.file_hash

\* C5 amended: a candidate file of a supported type, and a job file of any
\* name, reaches the fingerprint lookup; there, exactly when the same user
\* already has a record with these bytes (another user's record does not
\* count), the file is skipped as duplicate content: no record, blob or score
\* is written, the extractor, parser and engine are not called, and the
\* handler goes on to the next file of the batch.
C5_DuplicateContentSkipped ==
  [][\A p \in Procs :
       LET r == req[p]
           r2 == req'[p]
           coll == IF r.op = "upload_candidates" THEN candidates ELSE job_descriptions
       IN (/\ r.op \in {"upload_candidates", "upload_job_descriptions"}
           /\ r.pc = "find_hash" /\ r2 # r)
            => IF \E d \in coll : d.uid = r.uid /\ d.file_hash = r.file_hash
               THEN /\ r2.pc = "next_file" /\ r2.left = r.left - 1
                    /\ r2.skipped = Append(r.skipped, "duplicate content")
                    /\ r2.calls = r.calls /\ r2.created = r.created
                    /\ UNCHANGED <<candidates, job_descriptions, top_scores, gridfs>>
               ELSE r2.skipped = r.skipped]_vars

\* C5 witness: after skipping a file as duplicate content, the same candidate
\* batch is storing its next file.
C5_Witness ==
  \E p \in Procs :
    /\ req[p].op = "upload_candidates" /\ req[p].pc = "insert"
    /\ req[p].skipped = <<"duplicate content">> /\ req[p].created = << >>

\* C6: with requests not overlapping, no two stored candidates of one user
\* have the same non-empty email; a stored email is absent or well formed,
\* lower-cased and trimmed; a file is skipped as duplicate email exactly when
\* its parsed email is present and a candidate of the same user has it, and
\* the skip writes no record and no blob and goes on to the next file.
C6_EmailUniquePerUser ==
  /\ [](\A d1, d2 \in candidates :
          (d1.uid = d2.uid /\ d1.email # None /\ d1.email = d2.email) => d1 = d2)
  /\ [](\A d \in candidates :
          d.email # None =>
            (EmailRegexMatch(d.email) /\ Strip(Lower(d.email)) = d.email))
  /\ [][\A p \in Procs :
          LET r == req[p]
              r2 == req'[p]
              dup == /\ r.pc = "find_email"
                     /\ r.parsed_data.email # None
                     /\ \E d \in candidates :
                          d.uid = r.uid /\ d.email = r.parsed_data.email
          IN (r.op = "upload_candidates" /\ r2 # r /\ r2.op = r.op) =>
               /\ (r2.skipped = Append(r.skipped, "duplicate email")) <=> dup
               /\ dup => /\ r2.pc = "next_file" /\ r2.created = r.created
                         /\ UNCHANGED <<candidates, gridfs>>]_vars

\* C6 witness: a candidate upload answered 200 after skipping a file whose
\* email a stored candidate of that user has.
C6_Witness ==
  \E p \in Procs :
    /\ req[p].op = "upload_candidates" /\ req[p].pc = "done"
    /\ req[p].status = 200 /\ req[p].skipped = <<"duplicate email">>

\* C7 as stated: in every reachable state, concurrent uploads included, at
\* most one candidate of a user carries a given content fingerprint and at
\* most one a given non-empty email.
C7_UniqueUnderConcurrency ==
  \A d1, d2 \in candidates :
    (d1.uid = d2.uid /\ d1 # d2) =>
      /\ d1.file_hash # d2.file_hash
      /\ (d1.email # None => d1.email # d2.email)

\* C7 amended: as long as no request has started while another was in
\* flight, at most one candidate of a user carries a given content
\* fingerprint and at most one a given non-empty email; two overlapping
\* uploads can both pass the lookups before either inserts.
C7_UniqueWithoutOverlap ==
  overlapped \/
    \A d1, d2 \in candidates :
      (d1.uid = d2.uid /\ d1 # d2) =>
        /\ d1.file_hash # d2.file_hash
        /\ (d1.email # None => d1.email # d2.email)

\* C7 witness: two requests, the second started after the first answered,
\* and the second an upload that skipped a file as a duplicate.
C7_Witness ==
  /\ ~overlapped /\ started = 2
  /\ \E p \in Procs :
       /\ req[p].op = "upload_candidates" /\ req[p].pc = "done"
       /\ req[p].skipped # << >> /\ req[p].created # << >>

\* C8: with requests not overlapping, no two stored jobs of one user share a
\* content fingerprint, nor a (title, company) pair with both non-empty; a
\* file is skipped as duplicate title+company only when its parsed title and
\* company are both non-empty and a job of the same user has the pair, so a
\* job with an empty company (the parser's fallback included) never is.
C8_JobUniquePerUser ==
  /\ [](\A d1, d2 \in job_descriptions :
          (d1.uid = d2.uid /\ d1 # d2) =>
            /\ d1.file_hash # d2.file_hash
            /\ ~ (/\ d1.job_title = d2.job_title /\ d1.company = d2.company
                  /\ d1.job_title # "" /\ d1.company # ""))
  /\ [][\A p \in Procs :
          LET r == req[p]
              r2 == req'[p]
          IN (r.op = "upload_job_descriptions" /\ r2 # r /\ r2.op = r.op) =>
               /\ (r2.skipped = Append(r.skipped, "duplicate title+company")) =>
                    /\ r.parsed_data.job_title # "" /\ r.parsed_data.company # ""
                    /\ \E d \in job_descriptions :
                         /\ d.uid = r.uid
                         /\ d.job_title = r.parsed_data.job_title
                         /\ d.company = r.parsed_data.company
               /\ (r.pc = "find_hash" /\ r2.parsed_data # << >>
                   /\ r2.parsed_data.company = "") => r2.pc = "store_file"]_vars

\* C8 witness: one user has two stored jobs with the same title and an empty
\* company, the parser's fallback record both times.
C8_Witness ==
  \E d1, d2 \in job_descriptions :
    /\ d1 # d2 /\ d1.uid = d2.uid
    /\ d1.job_title = "Untitled Position" /\ d2.job_title = "Untitled Position"
    /\ d1.company = "" /\ d2.company = ""

\* C9 as stated: get_top_matches answers a list sorted non-increasing by
\* total_score, of records of that job and user with total_score >=
\* min_score, of at most limit records: all qualifying records when at most
\* limit qualify, else those with the highest total_score.
C9_AtMostLimit ==
  \A p \in Procs :
    LET r == req[p]
        res == r.result
        qualifying == {d \in top_scores :
                         /\ d.jd_id = r.jd_id /\ d.uid = r.uid
                         /\ d.total_score >= r.min_score}
        returned == {res[i] : i \in DOMAIN res}
    IN (r.op = "get_top_matches" /\ r.pc = "done" /\ r.status = 200) =>
         /\ \A i, j \in DOMAIN res : i < j => res[i].total_score >= res[j].total_score
         /\ returned \subseteq qualifying
         /\ Len(res) <= r.limit
         /\ Cardinality(qualifying) <= r.limit => returned = qualifying
         /\ \A d \in qualifying \ returned :
              \A i \in DOMAIN res : res[i].total_score >= d.total_score

\* C9 amended: for limit >= 1 the answer is sorted non-increasing by
\* total_score, holds only records of that job and user with total_score >=
\* min_score, has min(limit, number qualifying) records, and no record left
\* out has a higher total_score than one returned; a limit of 0 is no limit:
\* every qualifying record is returned.
C9_TopMatches ==
  \A p \in Procs :
    LET r == req[p]
        res == r.result
        qualifying == {d \in top_scores :
                         /\ d.jd_id = r.jd_id /\ d.uid = r.uid
                         /\ d.total_score >= r.min_score}
        returned == {res[i] : i \in DOMAIN res}
    IN (r.op = "get_top_matches" /\ r.pc = "done" /\ r.status = 200) =>
         /\ \A i, j \in DOMAIN res : i < j => res[i].total_score >= res[j].total_score
         /\ returned \subseteq qualifying
         /\ Cardinality(returned) = Len(res)
         /\ IF r.limit >= 1 /\ Cardinality(qualifying) > r.limit
            THEN Len(res) = r.limit
            ELSE returned = qualifying
         /\ \A d \in qualifying \ returned :
              \A i \in DOMAIN res : res[i].total_score >= d.total_score

\* C9 witness: limit 1 cut an answer short: two records qualified, with
\* different totals, and the one returned is the higher.
C9_Witness ==
  \E p \in Procs :
    /\ req[p].op = "get_top_matches" /\ req[p].pc = "done"
    /\ req[p].status = 200 /\ req[p].limit = 1 /\ Len(req[p].result) = 1
    /\ \E d \in top_scores :
         /\ d.jd_id = req[p].jd_id /\ d.uid = req[p].uid
         /\ d.total_score >= req[p].min_score
         /\ d.total_score < req[p].result[1].total_score

\* C10: get_top_matches for a job id that no job of the requester has (none
\* at all, or another user's) answers 404 and no record; no answer ever
\* holds a record of another user.
C10_TopMatchesOwnJobsOnly ==
  \A p \in Procs :
    LET r == req[p]
    IN (r.op = "get_top_matches" /\ r.pc = "done") =>
         /\ (~ \E j \in job_descriptions : j.jd_id = r.jd_id /\ j.uid = r.uid)
              => (r.status = 404 /\ r.result = << >>)
         /\ \A i \in DOMAIN r.result : r.result[i].uid = r.uid

\* C10 witness: a user asked for the top matches of another user's job that
\* has stored scores, and got 404.
C10_Witness ==
  \E p \in Procs :
    /\ req[p].op = "get_top_matches" /\ req[p].pc = "done" /\ req[p].status = 404
    /\ \E j \in job_descriptions : j.jd_id = req[p].jd_id /\ j.uid # req[p].uid
    /\ \E d \in top_scores : d.jd_id = req[p].jd_id /\ d.uid # req[p].uid

\* C11: deleting a job the requester owns removes the job and every stored
\* score with its jd_id; deleting a job id that no job of the requester has
\* (deleted before, never issued, or another user's) answers 404 with the
\* same empty outcome and changes neither the collections nor the blobs.
C11_DeleteJob ==
  [][\A p \in Procs :
       LET r == req[p]
           r2 == req'[p]
           owned == \E j \in job_descriptions : j.jd_id = r.jd_id /\ j.uid = r.uid
       IN (r.op = "delete_job_description" /\ r2 # r) =>
            /\ (r.pc = "find" /\ ~owned) =>
                 /\ r2 = [r EXCEPT !.pc = "done", !.status = 404]
                 /\ UNCHANGED <<candidates, job_descriptions, top_scores, gridfs>>
            /\ (r.pc = "find" /\ owned) => r2.pc = "fs_delete"
            /\ (r.pc # "done" /\ r2.pc = "done" /\ r2.status = 200) =>
                 /\ ~ \E j \in job_descriptions' : j.jd_id = r.jd_id
                 /\ ~ \E d \in top_scores' : d.jd_id = r.jd_id]_vars

\* C11 witness: a second delete of a job id, issued once and since deleted,
\* answered 404.
C11_Witness ==
  \E p \in Procs :
    /\ req[p].op = "delete_job_description" /\ req[p].pc = "done"
    /\ req[p].status = 404 /\ req[p].jd_id # NoId
    /\ ~ \E j \in job_descriptions : j.jd_id = req[p].jd_id

\* C12: every stored score references a job and a candidate that both
\* exist, in every state outside a deletion's own window between removing
\* the entity and removing its scores, whatever a delete request interleaves
\* with.
C12_ScoresReferenceExisting ==
  \A d \in top_scores :
    /\ \/ \E j \in job_descriptions : j.jd_id = d.jd_id
       \/ \E p \in Procs : /\ req[p].op = "delete_job_description"
                           /\ req[p].pc = "delete_many"
                           /\ req[p].jd_id = d.jd_id
    /\ \/ \E c \in candidates : c.candidate_id = d.candidate_id
       \/ \E p \in Procs : /\ req[p].op = "delete_candidate"
                           /\ req[p].pc = "delete_many"
                           /\ d.candidate_id \in req[p].candidate_ids

\* C13: when the fan-out of an uploaded job has gone through the engine's
\* answer, every candidate with a valid entry in the answer (a candidate id
\* and four category scores in [0,100]) has exactly one stored score for
\* the new job, carrying the weighted composite, and no other candidate has
\* a score for the new job.
C13_FanOutStoresOnePerValidEntry ==
  [][\A p \in Procs :
       LET r == req[p]
           valid == {i \in DOMAIN r.scores :
                       /\ IsDict(r.scores[i])
                       /\ "error" \notin DOMAIN r.scores[i]
                       /\ "candidate_id" \in DOMAIN r.scores[i]
                       /\ \A k \in {"skills_score", "experience_score",
                                    "education_score", "certifications_score"} :
                            k \in DOMAIN r.scores[i] /\ r.scores[i][k] \in 0..100}
       IN (/\ r.op = "upload_job_descriptions" /\ r.pc = "insert_score"
           /\ req'[p] # r /\ req'[p].pc # "insert_score") =>
            \A c \in {d.candidate_id : d \in candidates} :
              LET recs == {d \in top_scores' :
                             d.jd_id = r.jd_id /\ d.candidate_id = c}
              IN IF \E i \in valid : r.scores[i].candidate_id = c
                 THEN /\ Cardinality(recs) = 1
                      /\ \A d \in recs :
                           d.total_score =
                             50 * d.skills_score + 30 * d.experience_score
                               + 15 * d.education_score
                               + 5 * d.certifications_score
                 ELSE recs = {}]_vars

\* C14: a match that re-scores a (job, candidate) pair already holding a
\* record keeps that record's score_id: the pair's record after the update
\* carries the score_id it carried before.
C14_ScoreIdKeptOnRescore ==
  [][\A p \in Procs :
       LET r == req[p]
           score == r.scores[r.idx]
       IN (/\ r.op = "match_candidates" /\ r.pc = "update_one" /\ req'[p] # r
           /\ ~RaisesKeyError(score)
           /\ \A j \in 1..(r.idx - 1) :
                "candidate_id" \in DOMAIN r.scores[j] =>
                  r.scores[j].candidate_id # score.candidate_id) =>
            \A d \in top_scores :
              (d.jd_id = r.jd_id /\ d.candidate_id = score.candidate_id) =>
                \E d2 \in top_scores' :
                  /\ d2.jd_id = d.jd_id /\ d2.candidate_id = d.candidate_id
                  /\ d2.score_id = d.score_id]_vars

\* C15: no stored score has a category score outside [0,100].
C15_CategoryScoresInRange ==
  \A d \in top_scores :
    \A k \in {"skills_score", "experience_score", "education_score",
              "certifications_score"} :
      k \in DOMAIN d => d[k] \in 0..100

\* C16: a malformed entry of the engine's answer (here: one without a
\* candidate id) is skipped on its own: the step that reaches it does not
\* end the request with a failure, and goes on to the well-formed entries
\* after it.
C16_MalformedEntrySkipped ==
  [][\A p \in Procs :
       LET r == req[p]
       IN (/\ r.pc \in {"insert_score", "update_one"} /\ req'[p] # r
           /\ RaisesKeyError(r.scores[r.idx])) =>
            /\ req'[p].status # 500
            /\ (\E j \in (r.idx + 1)..Len(r.scores) :
                  /\ "error" \notin DOMAIN r.scores[j]
                  /\ ~RaisesKeyError(r.scores[j]))
                 => req'[p].pc = r.pc]_vars

\* C17 as stated: a file of unsupported type is not fatal to its batch: no
\* candidate or job upload has ended in a failure at a file whose type its
\* endpoint does not support.
C17_UnsupportedNotFatal ==
  \A p \in Procs :
    LET r == req[p]
    IN (r.pc = "done" /\ r.status = 500) =>
         /\ r.op = "upload_candidates" => is_supported_file(r.filename)
         /\ r.op = "upload_job_descriptions" => JdTextSupported(r.filename)

\* C17 amended: a file of unsupported type ends its batch: the request
\* answers with a failure naming that file, no record or blob is stored for
\* it, the files after it are left unprocessed, and the records of the
\* files before it stay as they were stored.
C17_UnsupportedAborts ==
  [][\A p \in Procs :
       LET r == req[p]
           r2 == req'[p]
       IN (/\ r2 # r
           /\ \/ /\ r.op = "upload_candidates" /\ r.pc = "next_file"
                 /\ r2.op = r.op /\ r2.filename # ""
                 /\ ~is_supported_file(r2.filename)
              \/ /\ r.op = "upload_job_descriptions" /\ r.pc = "find_hash"
                 /\ ~JdTextSupported(r.filename)
                 /\ Matching(job_descriptions,
                             [uid |-> r.uid, file_hash |-> r.file_hash]) = {}) =>
            /\ r2.pc = "done" /\ r2.status = 500
            /\ r2.filename \in Filenames \ {""}
            /\ r.op = "upload_job_descriptions" => r2.filename = r.filename
            /\ r2.left = r.left /\ r2.left >= 1
            /\ r2.created = r.created /\ r2.skipped = r.skipped
            /\ UNCHANGED <<candidates, job_descriptions, top_scores, gridfs>>
            /\ \A id \in {r.created[i] : i \in DOMAIN r.created} :
                 \E d \in candidates' \cup job_descriptions' :
                   /\ Get(d, "candidate_id", NoId) = id \/ Get(d, "jd_id", NoId) = id
                   /\ d.file_id \in gridfs']_vars

\* C17 witness: a batch of three ended at its second file, of unsupported
\* type: the first file's record is stored and the third was never read.
C17_Witness ==
  \E p \in Procs :
    /\ req[p].pc = "done" /\ req[p].status = 500
    /\ \/ req[p].op = "upload_candidates" /\ ~is_supported_file(req[p].filename)
       \/ req[p].op = "upload_job_descriptions" /\ ~JdTextSupported(req[p].filename)
    /\ Len(req[p].created) = 1 /\ req[p].left = 2

\* C18: a file whose extracted text is shorter than 50 characters (or empty)
\* never reaches the parser and gets no record: no upload is past the
\* parser (at its duplicate check, its blob upload or its insert) with a
\* text shorter than the minimum.
C18_ShortTextNeverParsed ==
  \A p \in Procs :
    LET r == req[p]
    IN (/\ r.op \in {"upload_candidates", "upload_job_descriptions"}
        /\ r.pc \in {"find_email", "find_title", "store_file", "insert"}) =>
         r.text_len >= MinTextLen

\* C19: a parser failure is answered by the parser's fallback record and is
\* never escalated: the file goes from the parser straight to the blob
\* upload (no email, empty company: no duplicate check applies), no step on
\* it fails the request or skips the file, and the insert stores a record
\* with the fallback's fields (name "Unknown" and no email; title "Untitled
\* Position", empty company, the error note as description) and moves on,
\* to the next file or, for a job, to the fan-out.
C19_ParserFailureNotEscalated ==
  [][\A p \in Procs :
       LET r == req[p]
           r2 == req'[p]
           upload == r2.op \in {"upload_candidates", "upload_job_descriptions"}
           fallback == IF r2.op = "upload_candidates" THEN ResumeFallback
                       ELSE JobFallback
       IN /\ (upload /\ r.pc = "find_hash" /\ r2 # r
                /\ r2.parsed_data = fallback) => r2.pc = "store_file"
          /\ (upload /\ r2.op = r.op /\ r2 # r /\ r.parsed_data = fallback
                /\ r.pc \in {"store_file", "insert"}) =>
               /\ r2.status # 500 /\ r2.skipped = r.skipped
               /\ r.pc = "store_file" =>
                    r2.pc = "insert" /\ r2.parsed_data = fallback
               /\ r.pc = "insert" =>
                    /\ Len(r2.created) = Len(r.created) + 1
                    /\ IF r.op = "upload_candidates"
                       THEN /\ r2.pc = "next_file" /\ r2.left = r.left - 1
                            /\ \E d \in candidates' \ candidates :
                                 /\ d.candidate_id = r2.created[Len(r2.created)]
                                 /\ d.uid = r.uid /\ d.name = "Unknown"
                                 /\ d.email = None
                                 /\ d.professional_summary = "Error parsing resume"
                       ELSE /\ r2.pc = "find_candidates"
                            /\ \E d \in job_descriptions' \ job_descriptions :
                                 /\ d.jd_id = r2.created[Len(r2.created)]
                                 /\ d.uid = r.uid
                                 /\ d.job_title = "Untitled Position"
                                 /\ d.company = ""
                                 /\ d.description = "Error parsing JD"]_vars

\* C19 witness: a candidate upload of two files has answered 200; the
\* parser failed on the first, whose record is stored from the fallback, and
\* the second was stored after it.
C19_Witness ==
  \E p \in Procs :
    /\ req[p].op = "upload_candidates" /\ req[p].pc = "done"
    /\ req[p].status = 200 /\ Len(req[p].created) = 2
    /\ \E d \in candidates :
         /\ d.candidate_id = req[p].created[1]
         /\ d.name = "Unknown" /\ d.email = None
    /\ \E d \in candidates : d.candidate_id = req[p].created[2]

\* C20: no batch-wide rollback: the step at which a file of an upload batch
\* fails (an error other than a duplicate) answers with a failure naming
\* that file, stores and removes nothing, leaves that file and every file
\* after it unprocessed, and the record and the blob of every file the batch
\* stored before are still there.
C20_NoRollback ==
  [][\A p \in Procs :
       LET r == req[p]
           r2 == req'[p]
       IN (/\ r.op \in {"upload_candidates", "upload_job_descriptions"}
           /\ r.pc # "done" /\ r2.pc = "done" /\ r2.status = 500) =>
            /\ r2.filename \in Filenames
            /\ r2.left = r.left /\ r2.left >= 1
            /\ r2.created = r.created
            /\ UNCHANGED <<candidates, job_descriptions, top_scores, gridfs>>
            /\ \A i \in DOMAIN r2.created :
                 \E d \in candidates' \cup job_descriptions' :
                   /\ \/ Get(d, "candidate_id", NoId) = r2.created[i]
                      \/ Get(d, "jd_id", NoId) = r2.created[i]
                   /\ d.uid = r.uid
                   /\ d.file_id \in gridfs']_vars

\* C20 witness: a candidate batch of three failed at its second file, whose
\* text was too short: the first file's record is stored and the third file
\* was never read.
C20_Witness ==
  \E p \in Procs :
    /\ req[p].op = "upload_candidates" /\ req[p].pc = "done"
    /\ req[p].status = 500 /\ req[p].text_len \in 0..(MinTextLen - 1)
    /\ Len(req[p].created) = 1 /\ req[p].left = 2
    /\ \E d \in candidates : d.candidate_id = req[p].created[1]

\* C21: the response of a successful upload reports both sets: what it
\* carries are the created records and, for every file the handler skipped,
\* that skip with its reason.
C21_ResponseReportsSkipped ==
  \A p \in Procs :
    LET r == req[p]
    IN (/\ r.op \in {"upload_candidates", "upload_job_descriptions"}
        /\ r.pc = "done" /\ r.status = 200) =>
         /\ \A i \in DOMAIN r.created :
              \E j \in DOMAIN r.result : r.result[j] = r.created[i]
         /\ \A i \in DOMAIN r.skipped :
              \E j \in DOMAIN r.result : r.result[j] = r.skipped[i]

\* C22: the job upload's engine call never fails the upload: the step that
\* makes the call stores nothing and either enters the storing loop, with a
\* non-empty list whose first entry is no error sentinel, or (error
\* sentinel, empty or non-list answer, or no candidates) moves on to the
\* next file with the new job stored, listed among the created records and
\* without any score; the response of the upload returns the created list.
C22_EngineFailureDoesNotFailUpload ==
  [][\A p \in Procs :
       LET r == req[p]
           r2 == req'[p]
       IN /\ (/\ r.op = "upload_job_descriptions" /\ r.pc = "find_candidates"
              /\ r2 # r) =>
               /\ r2.status # 500
               /\ UNCHANGED <<candidates, job_descriptions, top_scores, gridfs>>
               /\ r2.created = r.created
               /\ \E i \in DOMAIN r.created : r.created[i] = r.jd_id
               /\ \E d \in job_descriptions' : d.jd_id = r.jd_id /\ d.uid = r.uid
               /\ IF r2.pc = "insert_score"
                  THEN /\ r2.scores # << >>
                       /\ "error" \notin DOMAIN r2.scores[1]
                  ELSE /\ r2.pc = "next_file" /\ r2.left = r.left - 1
                       /\ ~ \E d \in top_scores' : d.jd_id = r.jd_id
          /\ (/\ r.op = "upload_job_descriptions" /\ r.pc = "next_file"
              /\ r2.op = r.op /\ r2.pc = "done") =>
               r2.status = 200 /\ r2.result = r.created]_vars

\* C22 witness: a job upload of two files by a user with candidates has
\* answered 200 with both jobs; the engine was called for each file, and
\* the first job has no score: the engine's answer for it was unusable.
C22_Witness ==
  \E p \in Procs :
    /\ req[p].op = "upload_job_descriptions" /\ req[p].pc = "done"
    /\ req[p].status = 200 /\ Len(req[p].result) = 2
    /\ Cardinality({i \in DOMAIN req[p].calls : req[p].calls[i] = "engine"}) = 2
    /\ \E c \in candidates : c.uid = req[p].uid
    /\ \E d \in job_descriptions : d.jd_id = req[p].result[1]
    /\ ~ \E d \in top_scores : d.jd_id = req[p].result[1]

\* C23: match answers a hard error, storing nothing, when the engine fails
\* entirely (error sentinel first, empty or non-list answer): once the
\* engine has been called the request either fails with 500 or enters the
\* storing loop with a non-empty list whose first entry is no sentinel.
\* Each valid entry stored changes only the records of its own (job,
\* candidate) pair, which then has a record with the entry's category
\* scores; and an answer of valid entries only, whatever subset of the
\* requested candidates it covers, ends in 200.
C23_MatchHardErrorOrSubset ==
  [][\A p \in Procs :
       LET r == req[p]
           r2 == req'[p]
           Valid(e) ==
             /\ "error" \notin DOMAIN e /\ "candidate_id" \in DOMAIN e
             /\ "jd_id" \notin DOMAIN e
             /\ \A k \in {"skills_score", "experience_score",
                          "education_score", "certifications_score"} :
                  k \in DOMAIN e /\ e[k] \in 0..100
           Other(S, c) == {d \in S : ~(d.jd_id = r.jd_id /\ d.candidate_id = c)}
       IN /\ (/\ r.op = "match_candidates" /\ r.pc = "analyze" /\ r2 # r) =>
               /\ r2.calls # r.calls
               /\ top_scores' = top_scores
               /\ IF r2.pc = "update_one"
                  THEN /\ r2.scores # << >>
                       /\ "error" \notin DOMAIN r2.scores[1]
                  ELSE r2.pc = "done" /\ r2.status = 500
          /\ (/\ r.op = "match_candidates" /\ r.pc = "update_one" /\ r2 # r
              /\ Valid(r.scores[r.idx])) =>
               LET e == r.scores[r.idx]
               IN /\ Other(top_scores', e.candidate_id)
                       = Other(top_scores, e.candidate_id)
                  /\ \E d \in top_scores' :
                       /\ d.jd_id = r.jd_id /\ d.candidate_id = e.candidate_id
                       /\ \A k \in {"skills_score", "experience_score",
                                    "education_score", "certifications_score"} :
                            d[k] = e[k]
                  /\ (\A i \in DOMAIN r.scores : Valid(r.scores[i])) =>
                       \/ r2.pc = "update_one" /\ r2.idx = r.idx + 1
                       \/ /\ r.idx = Len(r.scores)
                          /\ r2.pc = "done" /\ r2.status = 200]_vars

\* C23 witness: a match over all candidates of a user with two candidates
\* has answered 200 on an engine answer covering only one of them; the
\* other candidate's score for the job, stored by the upload's fan-out, is
\* still there.
C23_Witness ==
  \E p \in Procs :
    LET r == req[p]
    IN /\ r.op = "match_candidates" /\ r.pc = "done" /\ r.status = 200
       /\ r.candidate_ids = {} /\ Len(r.result) = 1
       /\ \E d \in top_scores :
            /\ d.jd_id = r.jd_id /\ d.candidate_id = r.result[1].candidate_id
       /\ \E c \in candidates, d \in top_scores :
            /\ c.uid = r.uid /\ c.candidate_id # r.result[1].candidate_id
            /\ d.jd_id = r.jd_id /\ d.candidate_id = c.candidate_id

\* C24: reads are scoped by the requester: a download that answers with a
\* file answers with the file of a candidate (of a job) that the requester
\* owns; for another user's record the answer is not-found.
C24_DownloadsOwnerScoped ==
  \A p \in Procs :
    LET r == req[p]
    IN /\ (r.op = "download_candidate_resume" /\ r.pc = "done" /\ r.status = 200) =>
            \E d \in candidates :
              d.file_id = r.result[1].file_id /\ d.uid = r.uid
       /\ (r.op = "download_job_description" /\ r.pc = "done" /\ r.status = 200) =>
            \E d \in job_descriptions :
              d.file_id = r.result[1].file_id /\ d.uid = r.uid

\* C25: an external model call is a suspension point: while one request is
\* waiting inside the scoring engine's call, every other request in flight
\* can take its next step.
C25_OthersRunDuringEngineCall ==
  \A p, q \in Procs :
    (p # q /\ req[p].pc = "analyze" /\ InFlight(q)) =>
      ENABLED StepIntegrity(q)

\* C26: the scoring engine is invoked by a job upload only in the step
\* after a job record's insert, there exactly once when the uploading user
\* has a candidate, with the ids of all that user's candidates, and not at
\* all when the user has none; so at most once per accepted file, and never
\* for a file skipped as a duplicate.
C26_OneEngineCallPerJobFile ==
  [][\A p \in Procs :
       LET r == req[p]
           r2 == req'[p]
           EngineCalls(q) == Cardinality({i \in DOMAIN q.calls : q.calls[i] = "engine"})
           mine == {c.candidate_id : c \in {d \in candidates : d.uid = r.uid}}
       IN (r.op = "upload_job_descriptions" /\ r2.op = r.op /\ r2 # r
             /\ r.pc # "done") =>
            /\ IF r.pc = "find_candidates" /\ mine # {}
               THEN /\ EngineCalls(r2) = EngineCalls(r) + 1
                    /\ r2.pc = "insert_score" => r2.resumes = mine
               ELSE EngineCalls(r2) = EngineCalls(r)
            /\ EngineCalls(r2) <= Len(r2.created)
            /\ Len(r2.skipped) > Len(r.skipped) => r.pc \in {"find_hash", "find_title"}]_vars

\* C26 witness: a user with a candidate has uploaded two job files; the
\* first was stored and scored with one engine call, the second was skipped
\* as a duplicate without any.
C26_Witness ==
  \E p \in Procs :
    /\ req[p].op = "upload_job_descriptions" /\ req[p].pc = "done"
    /\ req[p].status = 200
    /\ Len(req[p].created) = 1 /\ Len(req[p].skipped) = 1
    /\ req[p].calls = <<"extract", "parse", "engine">>
    /\ \E c \in candidates : c.uid = req[p].uid

\* C27: every score stored by match or by the fan-out carries the uid of the
\* requester whose request stores it, also when the engine's record has a
\* uid of its own.
C27_StoredUidIsRequester ==
  [][\A d \in top_scores' \ top_scores :
       \E p \in Procs :
         /\ req[p].pc \in {"insert_score", "update_one"} /\ req'[p] # req[p]
         /\ d.uid = req[p].uid]_vars

\* C27 witness: user u1 has a stored score that came from an engine record
\* carrying uid u2 (the record that also carries a total_score of 10.0).
C27_Witness ==
  \E d \in top_scores : d.total_score = 1000 /\ d.uid = "u1"

\* C28: every score a match request or a fan-out stores is keyed by the
\* request's own pair: its jd_id is the request's job and its candidate_id
\* is one of the candidates submitted to the engine, whatever the engine's
\* record carries.
C28_StoredUnderOwnPair ==
  [][\A p \in Procs :
       LET r == req[p]
       IN (r.pc \in {"insert_score", "update_one"} /\ req'[p] # r) =>
            \A d \in top_scores' \ top_scores :
              d.jd_id = r.jd_id /\ d.candidate_id \in r.resumes]_vars

\* C29: a job upload is not atomic across persist and fan-out.  The step at
\* which the fan-out of a file fails answers with a failure naming the file
\* and removes nothing: the job record, its blob and the scores stored so
\* far stay.  A file whose content the user already has stored (so also the
\* re-upload of that file) is skipped as duplicate content at the hash
\* check: no parser or engine call is made for it and no score is stored.
C29_FanOutFailureKeepsJob ==
  [][\A p \in Procs :
       LET r == req[p]
           r2 == req'[p]
       IN /\ (/\ r.op = "upload_job_descriptions" /\ r.pc = "insert_score"
              /\ r2.pc = "done") =>
               /\ r2.status = 500 /\ r2.filename = r.filename
               /\ r2.filename \in Filenames
               /\ UNCHANGED <<candidates, job_descriptions, top_scores, gridfs>>
               /\ \E d \in job_descriptions' :
                    /\ d.jd_id = r.jd_id /\ d.uid = r.uid
                    /\ d.file_hash = r.file_hash /\ d.file_id \in gridfs'
          /\ (/\ r.op = "upload_job_descriptions" /\ r.pc = "find_hash" /\ r2 # r
              /\ \E d \in job_descriptions :
                   d.uid = r.uid /\ d.file_hash = r.file_hash) =>
               /\ r2.pc = "next_file" /\ r2.left = r.left - 1
               /\ r2.skipped = Append(r.skipped, "duplicate content")
               /\ r2.calls = r.calls /\ r2.created = r.created
               /\ UNCHANGED <<candidates, job_descriptions, top_scores, gridfs>>]_vars

\* C29 witness: a job upload has failed in its fan-out after storing one
\* score: the request answered 500 naming the file, and the job, its blob
\* and that score are stored.
C29_Witness ==
  \E p \in Procs :
    LET r == req[p]
    IN /\ r.op = "upload_job_descriptions" /\ r.pc = "done" /\ r.status = 500
       /\ r.filename \in Filenames /\ r.jd_id # NoId
       /\ \E d \in job_descriptions : d.jd_id = r.jd_id /\ d.file_id \in gridfs
       /\ \E d \in top_scores : d.jd_id = r.jd_id

\* C30: a bulk delete by user U with id list L removes exactly the
\* candidates of L that U owns and every score referencing them; every other
\* candidate, every job and every other score stay (an id U does not own or
\* that names nothing is passed over); the response's deleted_count is the
\* number of distinct ids of L that U owned; and a blob-store failure at a
\* candidate's file does not keep its record and scores from being deleted.
C30_BulkDeleteExact ==
  [][\A p \in Procs :
       LET r == req[p]
           r2 == req'[p]
       IN /\ (r2.op = "bulk_delete_candidates" /\ r2.pc = "done") =>
               /\ r2.status = 200
               /\ r2.result = <<[deleted_count |-> Cardinality(r2.owned)]>>
               /\ \A d \in candidates' : d.candidate_id \notin r2.owned
               /\ \A d \in top_scores' :
                    "candidate_id" \in DOMAIN d => d.candidate_id \notin r2.owned
          /\ r.op = "bulk_delete_candidates" =>
               /\ job_descriptions' = job_descriptions
               /\ candidates' \subseteq candidates
               /\ top_scores' \subseteq top_scores
               /\ \A d \in candidates \ candidates' :
                    d.uid = r.uid /\ d.candidate_id \in r.owned
               /\ \A d \in top_scores \ top_scores' : d.candidate_id \in r.owned
               /\ (r.pc = "fs_delete" /\ gridfs' = gridfs) => r2.pc = "delete_one"]_vars

\* C30 witness: a bulk delete of a two-id list has answered with
\* deleted_count 1, the other id having been passed over, and the blob of
\* the deleted candidate is still stored, its deletion having failed.
C30_Witness ==
  \E p \in Procs :
    LET r == req[p]
    IN /\ r.op = "bulk_delete_candidates" /\ r.pc = "done"
       /\ Len(r.ids) = 2 /\ Cardinality(r.owned) = 1
       /\ r.result = <<[deleted_count |-> 1]>>
       /\ \E f \in gridfs :
            /\ \A d \in candidates : d.file_id # f
            /\ \A d \in job_descriptions : d.file_id # f

====
